---- MODULE Spec2Model ----
(***************************************************************************)
(* Eventra: a calendar tool server with an OAuth credential store.         *)
(*                                                                         *)
(* The model covers the token store (PrismaTokenStore over the OAuthToken  *)
(* table), the in-process OAuth2 client credential, process start-up, the  *)
(* three tool handlers (getMyCalendarDataByDate, createCalendarEvent,      *)
(* setGoogleOAuthTokens) and the OAuth callback receiver of either         *)
(* transport mode.                                                         *)
(*                                                                         *)
(* Time is the reading of Date.now() in milliseconds, counted from the     *)
(* first instant of the model; it advances in steps of one hour.           *)
(* Calendar date strings are parsed to milliseconds counted from           *)
(* 2025-09-03T00:00:00Z (TLC integers are 32 bits wide).                   *)
(***************************************************************************)
EXTENDS Integers, Sequences, FiniteSets, TLC

VARIABLES
    table,      \* rows of the OAuthToken table, in insertion order
    creds,      \* oauth2Client.credentials of the running process
    phase,      \* "starting" until init() has loaded the tokens, then "serving"
    now,        \* the clock, Date.now()
    last,       \* the most recent call: its name, arguments and outcome
    net,        \* network mode: the event stream and what the tool server got
    calls       \* setGoogleOAuthTokens invocations suspended at an await

vars == <<table, creds, phase, now, last, net, calls>>

----------------------------------------------------------------------------
(* Bounds and value sets *)

\* how many hours the clock may advance
MaxTicks == 1

\* 3600 * 1000 ms, the default life of a token set without expiry_date
Hour == 3600 * 1000

\* JavaScript undefined (an absent property) and the database NULL / JS null
Undefined == "undefined"
Null == "NULL"

\* an absent expiry_date: the code only tests the property's truthiness,
\* which is that of the number 0
NoExpiry == 0

\* process.env.DEFAULT_USER_ID || 'default_user': the one user the server
\* keeps tokens for
DefaultUser == "default_user"
Users == {DefaultUser}
AccessTokens == {"at1", "at2"}
RefreshTokens == {"rt1"}

\* the userEmail a caller may give saveTokens; it is null by default
Emails == {Null, "user@example.com"}

Instants == {k * Hour : k \in 0..MaxTicks}

\* the expiry_date of a token set: half an hour or two hours after the
\* first instant
ExpiryDates == {Hour \div 2, 2 * Hour}

\* the token sets an identity provider answers a code exchange with: the
\* token endpoint's success response always carries access_token
ProviderTokens ==
    [access_token : AccessTokens,
     refresh_token : RefreshTokens \cup {Undefined},
     expiry_date : ExpiryDates \cup {NoExpiry}]

\* the token sets a caller may hand to saveTokens
CredentialSets ==
    [access_token : AccessTokens \cup {Undefined},
     refresh_token : RefreshTokens \cup {Undefined},
     expiry_date : ExpiryDates \cup {NoExpiry}]

\* oauth2Client.credentials of a fresh OAuth2 client: {}
EmptyCredentials ==
    [access_token |-> Undefined, refresh_token |-> Undefined,
     expiry_date |-> NoExpiry]

\* JavaScript truthiness of a string-valued property and of a number
Truthy(x) == x /= Undefined /\ x /= Null /\ x /= ""
TruthyNumber(n) == n /= 0

\* what loadTokens returns when it returns null
NoCredentials == [null |-> TRUE]

----------------------------------------------------------------------------
(* The OAuthToken table and the Prisma queries the store issues *)

RowsOf(t, userId) == {i \in 1..Len(t) : t[i].userId = userId}

HasRecord(t, userId) == RowsOf(t, userId) /= {}

\* findUnique({where: {userId}}): the matching row, as a sequence of at
\* most one row (empty when the query returns null)
FindUnique(t, userId) ==
    IF HasRecord(t, userId)
    THEN <<t[CHOOSE i \in RowsOf(t, userId) :
                \A j \in RowsOf(t, userId) : i <= j]>>
    ELSE <<>>

\* the expiry saveTokens stores
\* variant: a default lifetime of two hours
ExpiresAtForTwoHours(tokens, at) ==
    IF TruthyNumber(tokens.expiry_date) THEN tokens.expiry_date
    ELSE at + 2 * Hour

ExpiresAtFor(tokens, at) ==
    IF TruthyNumber(tokens.expiry_date) THEN tokens.expiry_date ELSE at + Hour

\* upsert, create branch: an undefined optional column is stored as NULL;
\* createdAt defaults to the current time, updatedAt is set on write
CreateRow(userId, tokens, userEmail, at) ==
    [userId |-> userId,
     accessToken |-> tokens.access_token,
     refreshToken |-> IF tokens.refresh_token = Undefined
                      THEN Null ELSE tokens.refresh_token,
     expiresAt |-> ExpiresAtFor(tokens, at),
     userEmail |-> userEmail,
     createdAt |-> at,
     updatedAt |-> at]

\* upsert, update branch: Prisma leaves a column alone when the value given
\* for it is undefined; createdAt is not among the updated columns
UpdateRow(row, tokens, userEmail, at) ==
    [row EXCEPT
        !.accessToken = tokens.access_token,
        !.refreshToken = IF tokens.refresh_token = Undefined
                         THEN @ ELSE tokens.refresh_token,
        !.expiresAt = ExpiresAtFor(tokens, at),
        !.userEmail = userEmail,
        !.updatedAt = at]

\* variant: a plain insert where the upsert should be
UpsertAlwaysCreates(t, userId, tokens, userEmail, at) ==
    Append(t, CreateRow(userId, tokens, userEmail, at))

\* prisma.oAuthToken.upsert({where: {userId}, update, create})
Upsert(t, userId, tokens, userEmail, at) ==
    IF HasRecord(t, userId)
    THEN [i \in 1..Len(t) |->
            IF t[i].userId = userId
            THEN UpdateRow(t[i], tokens, userEmail, at) ELSE t[i]]
    ELSE Append(t, CreateRow(userId, tokens, userEmail, at))

\* variant: a delete that removes nothing
DeleteWhereNone(t, userId) == t

\* prisma.oAuthToken.delete({where: {userId}}): with no such row the query
\* throws (the caller swallows it) and the table is as before
DeleteWhereUser(t, userId) ==
    LET Keep(row) == row.userId /= userId IN SelectSeq(t, Keep)

\* variant: the sweep forgets the refresh token
CleanupMatchesAnyExpired(row, at) == row.expiresAt < at

\* the where clause of cleanupExpiredTokens' deleteMany
CleanupMatches(row, at) == row.expiresAt < at /\ row.refreshToken = Null

DeleteManyExpired(t, at) ==
    LET Keep(row) == ~CleanupMatches(row, at) IN SelectSeq(t, Keep)

\* variant: a record counts as valid at the very instant it expires
CountValidInclusive(t, userId, at) ==
    Cardinality({i \in RowsOf(t, userId) : t[i].expiresAt >= at})

\* the where clause of hasValidTokens' count
CountValid(t, userId, at) ==
    Cardinality({i \in RowsOf(t, userId) : t[i].expiresAt > at})

\* variant: the conversion leaves the refresh token out
RowToCredentialsNoRefresh(row) ==
    [access_token |-> row.accessToken,
     refresh_token |-> Undefined,
     expiry_date |-> row.expiresAt]

\* loadTokens' conversion of a row to the Credentials shape
RowToCredentials(row) ==
    [access_token |-> row.accessToken,
     refresh_token |-> IF Truthy(row.refreshToken)
                       THEN row.refreshToken ELSE Undefined,
     expiry_date |-> row.expiresAt]

----------------------------------------------------------------------------
(* PrismaTokenStore: what each method returns and what it leaves stored.   *)
(* dbFault says that the database call of this invocation throws.          *)

\* saveTokens: "ok", or the error it throws
SaveOutcome(tokens, dbFault) ==
    IF ~Truthy(tokens.access_token) THEN "Failed to save tokens to database"
    ELSE IF dbFault THEN "Failed to save tokens to database"
    ELSE "ok"

\* whether saveTokens reaches its upsert call
SaveIssuesUpsert(tokens) == Truthy(tokens.access_token)

\* variant: a faulting upsert that has written the row all the same
TableAfterSaveTorn(t, userId, tokens, userEmail, at, dbFault) ==
    IF Truthy(tokens.access_token)
    THEN Upsert(t, userId, tokens, userEmail, at)
    ELSE t

TableAfterSave(t, userId, tokens, userEmail, at, dbFault) ==
    IF SaveOutcome(tokens, dbFault) = "ok"
    THEN Upsert(t, userId, tokens, userEmail, at)
    ELSE t

\* variant: loadTokens returns null for an expired record
LoadResultDropsExpired(t, userId, dbFault) ==
    IF dbFault THEN NoCredentials
    ELSE IF FindUnique(t, userId) = <<>> THEN NoCredentials
    ELSE IF FindUnique(t, userId)[1].expiresAt < now THEN NoCredentials
    ELSE RowToCredentials(FindUnique(t, userId)[1])

LoadResult(t, userId, dbFault) ==
    IF dbFault THEN NoCredentials
    ELSE IF FindUnique(t, userId) = <<>> THEN NoCredentials
    ELSE RowToCredentials(FindUnique(t, userId)[1])

\* variant: getUserEmail lets the fault out as its message
UserEmailResultPropagates(t, userId, dbFault) ==
    IF dbFault THEN "Failed to get user email from database"
    ELSE IF FindUnique(t, userId) = <<>> THEN Null
    ELSE FindUnique(t, userId)[1].userEmail

\* getUserEmail: the record's userEmail, null when there is no record or the
\* query throws
UserEmailResult(t, userId, dbFault) ==
    IF dbFault THEN Null
    ELSE IF FindUnique(t, userId) = <<>> THEN Null
    ELSE FindUnique(t, userId)[1].userEmail

TableAfterDelete(t, userId, dbFault) ==
    IF dbFault THEN t ELSE DeleteWhereUser(t, userId)

HasValidResult(t, userId, at, dbFault) ==
    IF dbFault THEN FALSE ELSE CountValid(t, userId, at) > 0

TableAfterCleanup(t, at, dbFault) ==
    IF dbFault THEN t ELSE DeleteManyExpired(t, at)

\* variant: the count of the rows that match, whether or not the call went
\* through
CleanupResultIgnoresFault(t, at, dbFault) ==
    Len(t) - Len(DeleteManyExpired(t, at))

CleanupResult(t, at, dbFault) ==
    IF dbFault THEN 0 ELSE Len(t) - Len(DeleteManyExpired(t, at))

----------------------------------------------------------------------------
(* Store calls *)

\* what a saveTokens call leaves in last: a save that went through is
\* remembered with its arguments
SaveRecord(userId, tokens, userEmail, dbFault) ==
    IF SaveOutcome(tokens, dbFault) = "ok"
    THEN [op |-> "save", userId |-> userId, result |-> "ok", upsert |-> TRUE,
          tokens |-> tokens, userEmail |-> userEmail, at |-> now]
    ELSE [op |-> "save", userId |-> userId,
          result |-> SaveOutcome(tokens, dbFault),
          upsert |-> SaveIssuesUpsert(tokens)]

SaveTokens(userId, tokens, userEmail, dbFault) ==
    /\ table' = TableAfterSave(table, userId, tokens, userEmail, now, dbFault)
    /\ last' = SaveRecord(userId, tokens, userEmail, dbFault)
    /\ UNCHANGED <<net, calls, creds, phase, now>>

LoadTokens(userId, dbFault) ==
    /\ last' = [op |-> "load", userId |-> userId, fault |-> dbFault,
                result |-> LoadResult(table, userId, dbFault)]
    /\ UNCHANGED <<net, calls, table, creds, phase, now>>

\* variant: a delete that goes through also empties the client's credential
DeleteTokensClearsCredential(userId, dbFault) ==
    /\ table' = TableAfterDelete(table, userId, dbFault)
    /\ creds' = IF dbFault THEN creds ELSE EmptyCredentials
    /\ last' = [op |-> "delete", userId |-> userId, fault |-> dbFault]
    /\ UNCHANGED <<net, calls, phase, now>>

DeleteTokens(userId, dbFault) ==
    /\ table' = TableAfterDelete(table, userId, dbFault)
    /\ last' = [op |-> "delete", userId |-> userId, fault |-> dbFault]
    /\ UNCHANGED <<net, calls, creds, phase, now>>

HasValidTokens(userId, dbFault) ==
    /\ last' = [op |-> "hasValidTokens", userId |-> userId,
                fault |-> dbFault,
                result |-> HasValidResult(table, userId, now, dbFault)]
    /\ UNCHANGED <<net, calls, table, creds, phase, now>>

GetUserEmail(userId, dbFault) ==
    /\ last' = [op |-> "getUserEmail", userId |-> userId, fault |-> dbFault,
                result |-> UserEmailResult(table, userId, dbFault)]
    /\ UNCHANGED <<net, calls, table, creds, phase, now>>

CleanupExpiredTokens(dbFault) ==
    /\ table' = TableAfterCleanup(table, now, dbFault)
    /\ last' = [op |-> "cleanupExpiredTokens", fault |-> dbFault,
                result |-> CleanupResult(table, now, dbFault)]
    /\ UNCHANGED <<net, calls, creds, phase, now>>

----------------------------------------------------------------------------
(* Process start-up *)

\* initializeTokens: the credential of the process once the saved tokens of
\* the default user have been looked up (a null result changes nothing)
CredentialsAfterInit(c, t, dbFault) ==
    IF LoadResult(t, DefaultUser, dbFault) = NoCredentials
    THEN c
    ELSE LoadResult(t, DefaultUser, dbFault)

\* variant: the transport is connected before the saved tokens are loaded
StartupConnectsFirst(dbFault) ==
    /\ phase = "starting"
    /\ creds' = creds
    /\ phase' = "serving"
    /\ last' = [op |-> "init", fault |-> dbFault,
                loaded |-> LoadResult(table, DefaultUser, dbFault) /= NoCredentials]
    /\ UNCHANGED <<net, calls, table, now>>

\* init(): the tokens are loaded before any transport is connected
Startup(dbFault) ==
    /\ phase = "starting"
    /\ creds' = CredentialsAfterInit(creds, table, dbFault)
    /\ phase' = "serving"
    /\ last' = [op |-> "init", fault |-> dbFault,
                loaded |-> LoadResult(table, DefaultUser, dbFault) /= NoCredentials]
    /\ UNCHANGED <<net, calls, table, now>>

\* the process is stopped and started again: a fresh OAuth2 client, then
\* init(); no tool call is served in between
Restart(dbFault) ==
    /\ phase = "serving"
    /\ creds' = CredentialsAfterInit(EmptyCredentials, table, dbFault)
    /\ phase' = "serving"
    /\ last' = [op |-> "restart", fault |-> dbFault,
                loaded |-> LoadResult(table, DefaultUser, dbFault) /= NoCredentials]
    /\ UNCHANGED <<net, calls, table, now>>

----------------------------------------------------------------------------
(* Tool createCalendarEvent *)

\* Date.parse of a string that is no date
NaN == -1

Summaries == {"", "Sync"}
DateStrings ==
    {"2025-09-03T14:00:00Z", "2025-09-03T15:00:00Z", "2025-13-40"}

\* Date.parse, in ms counted from 2025-09-03T00:00:00Z
DateParse(s) ==
    CASE s = "2025-09-03T14:00:00Z" -> 14 * Hour
      [] s = "2025-09-03T15:00:00Z" -> 15 * Hour
      [] OTHER -> NaN

\* variant: a schema that looks at the summary only
WriteSchemaSummaryOnly(summary, startDateTime, endDateTime) == summary /= ""

\* the input schema of the tool: a non-empty summary, two parseable dates
WriteSchemaAccepts(summary, startDateTime, endDateTime) ==
    /\ summary /= ""
    /\ DateParse(startDateTime) /= NaN
    /\ DateParse(endDateTime) /= NaN

\* variant: an equal start and end let through
WindowRejectedStrict(startDateTime, endDateTime) ==
    DateParse(endDateTime) < DateParse(startDateTime)

\* the handler's own check of the window
WindowRejected(startDateTime, endDateTime) ==
    DateParse(endDateTime) <= DateParse(startDateTime)

\* the parameters getAuthUrl asks generateAuthUrl to put in the URL
AuthUrl ==
    [access_type |-> "offline",
     scope |-> {"https://www.googleapis.com/auth/calendar",
                "https://www.googleapis.com/auth/calendar.events"},
     prompt |-> "consent"]

NoUrl == [none |-> TRUE]

\* variant: the credential is not tested at all
GateOpenAlways(c) == TRUE

\* variant: the test also wants the access token unexpired
GateOpenFresh(c) ==
    Truthy(c.access_token) /\ (c.expiry_date = NoExpiry \/ c.expiry_date > now)

\* createCalendarEvent's test of the credential
GateOpen(c) == Truthy(c.access_token)

\* variant: the credential is tested before the window is
WriteResultGateFirst(c, summary, startDateTime, endDateTime, insertOk) ==
    IF ~WriteSchemaAccepts(summary, startDateTime, endDateTime)
    THEN [success |-> FALSE, error |-> "Invalid arguments",
          authUrl |-> NoUrl, inserted |-> FALSE]
    ELSE IF ~GateOpen(c)
    THEN [success |-> FALSE, error |-> "Authentication required",
          authUrl |-> AuthUrl, inserted |-> FALSE]
    ELSE IF WindowRejected(startDateTime, endDateTime)
    THEN [success |-> FALSE, error |-> "End time must be after the start time.",
          authUrl |-> NoUrl, inserted |-> FALSE]
    ELSE IF ~insertOk
    THEN [success |-> FALSE, error |-> "provider error",
          authUrl |-> NoUrl, inserted |-> TRUE]
    ELSE [success |-> TRUE, error |-> "", authUrl |-> NoUrl, inserted |-> TRUE]

\* what the tool answers; insertOk says whether the provider accepts the
\* insert when it is called
WriteResult(c, summary, startDateTime, endDateTime, insertOk) ==
    IF ~WriteSchemaAccepts(summary, startDateTime, endDateTime)
    THEN [success |-> FALSE, error |-> "Invalid arguments",
          authUrl |-> NoUrl, inserted |-> FALSE]
    ELSE IF WindowRejected(startDateTime, endDateTime)
    THEN [success |-> FALSE, error |-> "End time must be after the start time.",
          authUrl |-> NoUrl, inserted |-> FALSE]
    ELSE IF ~GateOpen(c)
    THEN [success |-> FALSE, error |-> "Authentication required",
          authUrl |-> AuthUrl, inserted |-> FALSE]
    ELSE IF ~insertOk
    THEN [success |-> FALSE, error |-> "provider error",
          authUrl |-> NoUrl, inserted |-> TRUE]
    ELSE [success |-> TRUE, error |-> "",
          authUrl |-> NoUrl, inserted |-> TRUE]

\* what a call leaves in last: the window is remembered when the call got
\* past the input schema to the handler
WriteRecord(c, summary, startDateTime, endDateTime, insertOk) ==
    IF WriteSchemaAccepts(summary, startDateTime, endDateTime)
    THEN [op |-> "createCalendarEvent",
          startDateTime |-> startDateTime, endDateTime |-> endDateTime,
          result |-> WriteResult(c, summary, startDateTime, endDateTime,
                                 insertOk)]
    ELSE [op |-> "createCalendarEvent",
          result |-> WriteResult(c, summary, startDateTime, endDateTime,
                                 insertOk)]

CreateCalendarEvent(summary, startDateTime, endDateTime, insertOk) ==
    /\ phase = "serving"
    /\ last' = WriteRecord(creds, summary, startDateTime, endDateTime, insertOk)
    /\ UNCHANGED <<net, calls, table, creds, phase, now>>

----------------------------------------------------------------------------
(* Tool getMyCalendarDataByDate *)

Day == 24 * Hour

\* what calendarReadOnly.events.list does: it throws, or it resolves with
\* the events of the day (one timed, one all-day, one without start, one
\* whose start carries neither field)
ListAnswers ==
    {[ok |-> FALSE, error |-> "list error"],
     [ok |-> TRUE, items |-> <<>>],
     [ok |-> TRUE,
      items |-> <<[summary |-> "Sync", hasStart |-> TRUE,
                   dateTime |-> "2025-09-03T14:00:00Z", date |-> Undefined],
                  [summary |-> "Offsite", hasStart |-> TRUE,
                   dateTime |-> Undefined, date |-> "2025-09-03"],
                  [summary |-> "Draft", hasStart |-> FALSE,
                   dateTime |-> Undefined, date |-> Undefined],
                  [summary |-> "Hold", hasStart |-> TRUE,
                   dateTime |-> Undefined, date |-> Undefined]>>]}

\* the input schema of the tool: a date that Date.parse accepts
ReadSchemaAccepts(date) == DateParse(date) /= NaN

\* setUTCHours(0, 0, 0, 0)
DayStart(ms) == ms - (ms % Day)

\* timeMin and timeMax of the list request: the UTC day of the date
ReadQuery(date) ==
    [timeMin |-> DayStart(DateParse(date)),
     timeMax |-> DayStart(DateParse(date)) + Day]

\* `${event.summary} at ${time}`, as the pair of its two parts
MeetingOf(event) ==
    <<event.summary,
      IF event.hasStart
      THEN (IF Truthy(event.dateTime) THEN event.dateTime ELSE event.date)
      ELSE "Unknown time">>

\* variant: the read goes through the OAuth2 client
ReadAuthOAuth(c) == [kind |-> "oauth2", access_token |-> c.access_token]

\* the auth of the client the read uses: the public API key, whatever the
\* OAuth2 credential c of the process
ReadAuth(c) == [kind |-> "apiKey", access_token |-> Undefined]

\* the provider's answer to a list request sent with the given auth: a
\* request through an OAuth2 client without access token is refused
EventsList(auth, answer) ==
    IF auth.kind = "oauth2" /\ ~Truthy(auth.access_token)
    THEN [ok |-> FALSE, error |-> "Login Required"]
    ELSE answer

\* what the tool answers; listed says whether events.list was called
ReadResult(c, date, answer) ==
    IF ~ReadSchemaAccepts(date)
    THEN [error |-> "Invalid arguments", listed |-> FALSE]
    ELSE IF EventsList(ReadAuth(c), answer).ok
    THEN [meetings |->
             [i \in 1..Len(EventsList(ReadAuth(c), answer).items) |->
                 MeetingOf(EventsList(ReadAuth(c), answer).items[i])],
          listed |-> TRUE]
    ELSE [error |-> EventsList(ReadAuth(c), answer).error, listed |-> TRUE]

\* what a call leaves in last: the provider's answer is remembered when the
\* call got past the input schema
ReadRecord(c, date, answer) ==
    IF ReadSchemaAccepts(date)
    THEN [op |-> "getMyCalendarDataByDate", date |-> date,
          query |-> ReadQuery(date), answer |-> answer,
          result |-> ReadResult(c, date, answer)]
    ELSE [op |-> "getMyCalendarDataByDate", date |-> date,
          result |-> ReadResult(c, date, answer)]

GetMyCalendarDataByDate(date, answer) ==
    /\ phase = "serving"
    /\ last' = ReadRecord(creds, date, answer)
    /\ UNCHANGED <<net, calls, table, creds, phase, now>>

----------------------------------------------------------------------------
(* Tool setGoogleOAuthTokens *)

\* what oauth2Client.getToken(code) does: it throws, or it resolves with a
\* token set
Exchanges ==
    {[ok |-> FALSE]} \cup [ok : {TRUE}, tokens : ProviderTokens]

\* variant: the handler forgets setCredentials
CredentialsNotSet(c, exchange) == c

\* the credential after the handler: setCredentials(tokens) runs as soon as
\* the exchange has resolved, before the tokens are saved
CredentialsAfterSetTokens(c, exchange) ==
    IF exchange.ok THEN exchange.tokens ELSE c

TableAfterSetTokens(t, exchange, at, dbFault) ==
    IF exchange.ok
    THEN TableAfterSave(t, DefaultUser, exchange.tokens, Null, at, dbFault)
    ELSE t

\* variant: the handler answers success without waiting for the save
SetTokensResultIgnoresSave(exchange, dbFault) ==
    IF ~exchange.ok
    THEN [success |-> FALSE, error |-> "exchange error", saved |-> FALSE]
    ELSE [success |-> TRUE, error |-> "", saved |-> TRUE]

SetTokensResult(exchange, dbFault) ==
    IF ~exchange.ok
    THEN [success |-> FALSE, error |-> "exchange error", saved |-> FALSE]
    ELSE IF SaveOutcome(exchange.tokens, dbFault) /= "ok"
    THEN [success |-> FALSE, error |-> SaveOutcome(exchange.tokens, dbFault),
          saved |-> SaveIssuesUpsert(exchange.tokens)]
    ELSE [success |-> TRUE, error |-> "", saved |-> TRUE]

\* the handler, called with a code that the input schema accepts
SetGoogleOAuthTokens(exchange, dbFault) ==
    /\ phase = "serving"
    /\ creds' = CredentialsAfterSetTokens(creds, exchange)
    /\ table' = TableAfterSetTokens(table, exchange, now, dbFault)
    /\ last' = [op |-> "setGoogleOAuthTokens", exchange |-> exchange,
                fault |-> (exchange.ok /\ dbFault),
                result |-> SetTokensResult(exchange, dbFault)]
    /\ UNCHANGED <<net, calls, phase, now>>

----------------------------------------------------------------------------
(* The OAuth callback receiver: the stand-alone listener of the stdio mode *)
(* and the route of the network mode                                       *)

\* requests for the path /oauth2callback: the method, and the query string
\* as its sequence of name and value pairs
CallbackRequests ==
    {[method |-> "GET", query |-> <<>>],
     [method |-> "GET", query |-> <<<<"code", "">>>>],
     [method |-> "GET", query |-> <<<<"code", "abc">>>>],
     [method |-> "GET", query |-> <<<<"code", "abc">>, <<"code", "xyz">>>>],
     [method |-> "POST", query |-> <<<<"code", "abc">>>>]}

\* the values the query string gives for a name, in order
ValuesOf(query, name) ==
    LET Named(pair) == pair[1] = name
        pairs == SelectSeq(query, Named)
    IN [i \in 1..Len(pairs) |-> pairs[i][2]]

\* the page of an authorization code: `${code}` of a string is the string,
\* of an array its elements joined by commas (the sequence of the elements)
AuthorizationFailed == [status |-> 400, page |-> "Authorization Failed"]
NotFound == [status |-> 404, page |-> "Not Found"]
HandleOAuthCallback(code) ==
    [status |-> 200, page |-> "Authorization Successful", code |-> code]

\* the stand-alone listener: searchParams.get('code') is the first value of
\* the name, or null; the method is not looked at
ListenerResponse(request) ==
    IF ValuesOf(request.query, "code") /= <<>>
       /\ Truthy(ValuesOf(request.query, "code")[1])
    THEN HandleOAuthCallback(<<ValuesOf(request.query, "code")[1]>>)
    ELSE AuthorizationFailed

\* the network server's route, app.get: req.query.code is undefined when
\* the name is absent, the value when it occurs once, the array of the
\* values when it occurs more than once (an array is truthy); any other
\* method than GET finds no route
RouteResponse(request) ==
    IF request.method /= "GET" THEN NotFound
    ELSE IF Len(ValuesOf(request.query, "code")) > 1
    THEN HandleOAuthCallback(ValuesOf(request.query, "code"))
    ELSE IF Len(ValuesOf(request.query, "code")) = 1
            /\ Truthy(ValuesOf(request.query, "code")[1])
    THEN HandleOAuthCallback(<<ValuesOf(request.query, "code")[1]>>)
    ELSE AuthorizationFailed

\* the receiver the transport mode mounts
CallbackResponse(mode, request) ==
    IF mode = "network" THEN RouteResponse(request)
    ELSE ListenerResponse(request)

\* variant: the receiver exchanges the code it receives by itself
OAuthCallbackExchanges(mode, request) ==
    /\ phase = "serving"
    /\ last' = [op |-> "oauth2callback", mode |-> mode, request |-> request,
                response |-> CallbackResponse(mode, request)]
    /\ creds' = IF CallbackResponse(mode, request).status = 200
                THEN [access_token |-> "at1", refresh_token |-> Undefined,
                      expiry_date |-> NoExpiry]
                ELSE creds
    /\ UNCHANGED <<net, calls, table, phase, now>>

\* a request arrives at the receiver of the mode the process runs in; the
\* receiver reads and writes nothing of the process
OAuthCallback(mode, request) ==
    /\ phase = "serving"
    /\ last' = [op |-> "oauth2callback", mode |-> mode, request |-> request,
                response |-> CallbackResponse(mode, request)]
    /\ UNCHANGED <<net, calls, table, creds, phase, now>>

----------------------------------------------------------------------------

(* Network mode: the event stream and the message route *)

\* the tool-protocol requests a client can post, one per registered tool
ToolRequests ==
    {"getMyCalendarDataByDate", "createCalendarEvent", "setGoogleOAuthTokens"}

\* no stream is open, the tool server was handed nothing
NetIdle == [stream |-> "closed", events |-> <<>>, handled |-> <<>>]

\* GET /sse builds a transport around the response and connects the tool
\* server to it; the transport announces the message endpoint on the stream.
\* The transport is a local of this handler.
NetAfterSse(n) ==
    [n EXCEPT !.stream = "open", !.events = Append(@, "endpoint")]

\* POST /message answers the request itself and hands nothing to a transport
NetAfterMessage(n, request) == n

MessageResponse(request) == [status |-> 200, body |-> "received"]

OpenSse ==
    /\ phase = "serving"
    /\ net.stream = "closed"
    /\ net' = NetAfterSse(net)
    /\ last' = [op |-> "sse"]
    /\ UNCHANGED <<calls, table, creds, phase, now>>

PostMessage(request) ==
    /\ phase = "serving"
    /\ net' = NetAfterMessage(net, request)
    /\ last' = [op |-> "message", request |-> request,
                response |-> MessageResponse(request)]
    /\ UNCHANGED <<calls, table, creds, phase, now>>

----------------------------------------------------------------------------

(* setGoogleOAuthTokens as the event loop runs it: an invocation gives up   *)
(* control at each await, and invocations of several requests interleave    *)

\* the requests whose invocations overlap
CallIds == {"first", "second"}

\* no invocation has begun
NoCalls == [id \in CallIds |-> [pc |-> "idle"]]

\* the handler is entered and waits for oauth2Client.getToken(code)
BeginSetTokens(id) ==
    /\ phase = "serving"
    /\ calls[id].pc = "idle"
    /\ calls' = [calls EXCEPT ![id] = [pc |-> "exchanging"]]
    /\ UNCHANGED <<net, table, creds, phase, now, last>>

\* getToken settles. On a token set the invocation goes on without a break:
\* it sets the credential, and saveTokens computes the expiry and issues
\* its upsert, for which the invocation then waits. On a rejection the catch
\* returns the failure envelope.
ExchangeSettles(id, exchange) ==
    /\ calls[id].pc = "exchanging"
    /\ creds' = CredentialsAfterSetTokens(creds, exchange)
    /\ calls' = [calls EXCEPT ![id] =
                    IF exchange.ok /\ SaveIssuesUpsert(exchange.tokens)
                    THEN [pc |-> "saving", tokens |-> exchange.tokens,
                          at |-> now]
                    ELSE [pc |-> "done", success |-> FALSE]]
    /\ UNCHANGED <<net, table, phase, now, last>>

\* the database applies the upsert of an invocation, or fails it, and the
\* invocation returns its envelope. Upserts in flight at the same time are
\* applied in the order the database takes them.
SaveSettles(id, dbFault) ==
    /\ calls[id].pc = "saving"
    /\ table' = TableAfterSave(table, DefaultUser, calls[id].tokens, Null,
                               calls[id].at, dbFault)
    /\ calls' = [calls EXCEPT ![id] =
                    [pc |-> "done",
                     success |-> SaveOutcome(calls[id].tokens, dbFault) = "ok"]]
    /\ UNCHANGED <<net, creds, phase, now, last>>

----------------------------------------------------------------------------

\* the clock advances
Tick ==
    /\ now < MaxTicks * Hour
    /\ now' = now + Hour
    /\ UNCHANGED <<net, calls, table, creds, phase, last>>

----------------------------------------------------------------------------

Init ==
    /\ table = <<>>
    /\ creds = EmptyCredentials
    /\ phase = "starting"
    /\ now = 0
    /\ last = [op |-> "none"]
    /\ net = NetIdle
    /\ calls = NoCalls

Next ==
    \/ \E u \in Users, tk \in CredentialSets, em \in Emails, f \in BOOLEAN :
          SaveTokens(u, tk, em, f)
    \/ \E u \in Users, f \in BOOLEAN : LoadTokens(u, f)
    \/ \E u \in Users, f \in BOOLEAN : DeleteTokens(u, f)
    \/ \E u \in Users, f \in BOOLEAN : HasValidTokens(u, f)
    \/ \E u \in Users, f \in BOOLEAN : GetUserEmail(u, f)
    \/ \E f \in BOOLEAN : CleanupExpiredTokens(f)
    \/ \E f \in BOOLEAN : Startup(f)
    \/ \E f \in BOOLEAN : Restart(f)
    \/ \E sm \in Summaries, sd \in DateStrings, ed \in DateStrings,
          ok \in BOOLEAN : CreateCalendarEvent(sm, sd, ed, ok)
    \/ \E d \in DateStrings, a \in ListAnswers : GetMyCalendarDataByDate(d, a)
    \/ \E m \in {"stdio", "network"}, r \in CallbackRequests : OAuthCallback(m, r)
    \/ \E x \in Exchanges, f \in BOOLEAN : SetGoogleOAuthTokens(x, f)
    \/ Tick

Spec == Init /\ [][Next]_vars

\* the process in network mode: the store, start-up, the HTTP routes
NextNetwork ==
    \/ \E u \in Users, tk \in CredentialSets, em \in Emails, f \in BOOLEAN :
          SaveTokens(u, tk, em, f)
    \/ \E u \in Users, f \in BOOLEAN : DeleteTokens(u, f)
    \/ \E f \in BOOLEAN : Startup(f)
    \/ OpenSse
    \/ \E r \in ToolRequests : PostMessage(r)
    \/ \E r \in CallbackRequests : OAuthCallback("network", r)
    \/ Tick

SpecNetwork == Init /\ [][NextNetwork]_vars

\* the process while setGoogleOAuthTokens requests overlap
NextConcurrent ==
    \/ \E f \in BOOLEAN : Startup(f)
    \/ \E id \in CallIds : BeginSetTokens(id)
    \/ \E id \in CallIds, x \in Exchanges : ExchangeSettles(id, x)
    \/ \E id \in CallIds, f \in BOOLEAN : SaveSettles(id, f)
    \/ Tick

SpecConcurrent == Init /\ [][NextConcurrent]_vars

\* the event loop runs whatever is ready to run: the process never stops
\* while a request can be served
SpecNetworkFair == SpecNetwork /\ WF_vars(NextNetwork)

----------------------------------------------------------------------------
(* Vocabulary of the properties *)

\* the step is a call of the named operation (every call writes its own
\* record to last; only the clock's tick leaves last alone)
Called(name) == last'.op = name /\ now' = now

\* last is a createCalendarEvent call that got past the input schema
WriteHandled == last.op = "createCalendarEvent" /\ "startDateTime" \in DOMAIN last

\* ... with a start strictly before its end
ValidWindow ==
    /\ WriteHandled
    /\ DateParse(last.startDateTime) /= NaN
    /\ DateParse(last.endDateTime) /= NaN
    /\ DateParse(last.startDateTime) < DateParse(last.endDateTime)

\* the in-process credential carries an access token
HasAccessToken == creds.access_token \in AccessTokens

\* the user's stored rows
StoredRows(userId) == {table[i] : i \in RowsOf(table, userId)}

\* the spec's Authorized state: a stored record, and a write would pass the
\* authorization check
Authorized == StoredRows(DefaultUser) /= {} /\ HasAccessToken

----------------------------------------------------------------------------
(* C1 *)

\* C1: a write with a valid time window, made while the in-process
\* credential has no access token, answers success false with the error
\* "Authentication required" and an authorization URL that asks for offline
\* access, and it does not call the provider's insert.
C1_AuthenticationRequired ==
    (ValidWindow /\ ~HasAccessToken) =>
        /\ last.result.success = FALSE
        /\ last.result.error = "Authentication required"
        /\ last.result.authUrl /= NoUrl
        /\ last.result.authUrl.access_type = "offline"
        /\ last.result.inserted = FALSE

C1_Witness ==
    /\ ValidWindow
    /\ creds = EmptyCredentials
    /\ last.result.error = "Authentication required"

----------------------------------------------------------------------------
(* C4 *)

\* C4: the passage of time changes nothing the authorization check reads,
\* and a write with a valid window made while the in-process credential
\* has an access token and a refresh token is never answered
\* "Authentication required", whatever the token's expiry: it goes on to
\* the provider's insert.
C4_ExpiryNeverClosesGate ==
    [][ /\ (now' /= now => creds' = creds)
        /\ (ValidWindow /\ HasAccessToken
            /\ creds.refresh_token \in RefreshTokens)'
              => (/\ last'.result.error /= "Authentication required"
                  /\ last'.result.authUrl = NoUrl
                  /\ last'.result.inserted = TRUE) ]_vars

C4_Witness ==
    /\ ValidWindow
    /\ HasAccessToken
    /\ creds.refresh_token \in RefreshTokens
    /\ creds.expiry_date /= NoExpiry
    /\ creds.expiry_date < now
    /\ last.result.inserted = TRUE

----------------------------------------------------------------------------
(* C6 *)

\* C6: a write whose end is at or before its start (equal included) is
\* answered with the validation error and never calls the provider's
\* insert, whether or not the in-process credential has an access token.
C6_WindowRejected ==
    (/\ WriteHandled
     /\ DateParse(last.endDateTime) <= DateParse(last.startDateTime)) =>
        /\ last.result.success = FALSE
        /\ last.result.error = "End time must be after the start time."
        /\ last.result.authUrl = NoUrl
        /\ last.result.inserted = FALSE

C6_Witness ==
    /\ WriteHandled
    /\ last.startDateTime = last.endDateTime
    /\ HasAccessToken
    /\ last.result.error = "End time must be after the start time."

----------------------------------------------------------------------------
(* C7 *)

\* C7: the table never holds two rows for one userId.
C7_OneRecordPerUser ==
    \A u \in Users : Cardinality(RowsOf(table, u)) <= 1

\* a save that found the user's record and wrote over it
C7_Witness ==
    /\ last.op = "save"
    /\ last.result = "ok"
    /\ Len(table) = 1
    /\ table[1].userId = last.userId
    /\ table[1].createdAt < table[1].updatedAt
    /\ table[1].accessToken = last.tokens.access_token

----------------------------------------------------------------------------
(* C2 *)

\* C2: from every reachable state, a setTokens whose code exchange and save
\* both succeed reports success and leaves the user Authorized: exactly one
\* record of the returned tokens is stored, hasValidTokens answers true
\* when the returned expiry is later than now, and the in-process
\* credential carries the returned access token.  From then on no call
\* takes the access token away while the process runs, and every write with
\* a valid window made with it goes on to the provider's insert.
C2_SetTokensAuthorizes ==
    [][ /\ (Called("setGoogleOAuthTokens") /\ last'.exchange.ok
            /\ ~last'.fault) =>
              /\ last'.result.success = TRUE
              /\ Authorized'
              /\ creds'.access_token = last'.exchange.tokens.access_token
              /\ Cardinality(RowsOf(table', DefaultUser)) = 1
              /\ \A row \in StoredRows(DefaultUser)' :
                    row.accessToken = last'.exchange.tokens.access_token
              /\ last'.exchange.tokens.expiry_date > now =>
                    HasValidResult(table', DefaultUser, now, FALSE)
        /\ (HasAccessToken /\ ~Called("restart")) => HasAccessToken'
        /\ (ValidWindow /\ HasAccessToken)' =>
              (/\ last'.result.error /= "Authentication required"
               /\ last'.result.inserted = TRUE) ]_vars

\* a successful setTokens that created the record anew, later than the
\* first instant
C2_Witness ==
    /\ last.op = "setGoogleOAuthTokens"
    /\ last.result.success = TRUE
    /\ Authorized
    /\ Len(table) = 1
    /\ table[1].createdAt = now
    /\ now > 0
    /\ HasValidResult(table, DefaultUser, now, FALSE)

----------------------------------------------------------------------------
(* C3 *)

\* C3: a setTokens that reports failure leaves the table exactly as it
\* was, and when it is the code exchange that failed no save is issued.
C3_FailedSetTokensKeepsStore ==
    [][ /\ (Called("setGoogleOAuthTokens") /\ last'.result.success = FALSE)
              => table' = table
        /\ (Called("setGoogleOAuthTokens") /\ ~last'.exchange.ok) =>
              /\ last'.result.success = FALSE
              /\ last'.result.saved = FALSE
              /\ table' = table ]_vars

C3_Witness ==
    /\ last.op = "setGoogleOAuthTokens"
    /\ last.result.success = FALSE
    /\ last.result.saved = FALSE
    /\ StoredRows(DefaultUser) /= {}

----------------------------------------------------------------------------
(* C5 *)

\* C5 as claimed: only a delete or a cleanup takes the user from Authorized
\* to Unauthorized.
C5_OnlyDeleteOrCleanup ==
    [][ (Authorized /\ ~Authorized') =>
            (Called("delete") \/ Called("cleanupExpiredTokens")) ]_vars

\* C5 as amended: the user goes from Authorized to Unauthorized only by a
\* delete of their record, by a cleanup that finds the record expired and
\* without refresh token, or by a restart of the process whose start-up
\* load faults (the record stays stored, the new process has no
\* credential).
C5_OnlyDeleteCleanupOrFaultedStartup ==
    [][ (Authorized /\ ~Authorized') =>
            \/ /\ Called("delete")
               /\ last'.userId = DefaultUser
               /\ StoredRows(DefaultUser)' = {}
            \/ /\ Called("cleanupExpiredTokens")
               /\ StoredRows(DefaultUser)' = {}
               /\ \A row \in StoredRows(DefaultUser) :
                     row.expiresAt < now /\ row.refreshToken = Null
            \/ /\ Called("restart")
               /\ last'.fault = TRUE
               /\ table' = table ]_vars

\* the process has restarted under a store fault: the record is stored, the
\* credential is empty
C5_Witness ==
    /\ last.op = "restart"
    /\ last.fault = TRUE
    /\ StoredRows(DefaultUser) /= {}
    /\ creds = EmptyCredentials

----------------------------------------------------------------------------
(* C8 *)

\* C8 as claimed: a save that went through, followed at once by a load of
\* the same user that does not fault, returns the access token, refresh
\* token and expiry that were saved (the expiry being the save's instant
\* plus one hour when none was given).
C8_SaveLoadRoundTrip ==
    [][ (/\ last.op = "save"
         /\ last.result = "ok"
         /\ Called("load")
         /\ last'.userId = last.userId
         /\ last'.fault = FALSE) =>
            /\ last'.result /= NoCredentials
            /\ last'.result.access_token = last.tokens.access_token
            /\ last'.result.refresh_token = last.tokens.refresh_token
            /\ last'.result.expiry_date =
                  (IF last.tokens.expiry_date = NoExpiry
                   THEN last.at + Hour ELSE last.tokens.expiry_date) ]_vars

----------------------------------------------------------------------------
(* C9 *)

\* C9 as claimed: a save that went through, followed at once by a save of
\* the same user with the same data, leaves one record whose token fields
\* are those given, with createdAt as the first save left it and updatedAt
\* later than the first save left it.
C9_RepeatedSave ==
    [][ (/\ last.op = "save"
         /\ last.result = "ok"
         /\ Called("save")
         /\ last'.result = "ok"
         /\ last'.userId = last.userId
         /\ last'.tokens = last.tokens
         /\ last'.userEmail = last.userEmail) =>
            /\ Cardinality(RowsOf(table', last.userId)) = 1
            /\ \A row \in StoredRows(last.userId)' :
                  /\ row.accessToken = last.tokens.access_token
                  /\ row.refreshToken =
                        (IF last.tokens.refresh_token = Undefined
                         THEN Null ELSE last.tokens.refresh_token)
                  /\ row.expiresAt =
                        (IF last.tokens.expiry_date = NoExpiry
                         THEN now + Hour ELSE last.tokens.expiry_date)
                  /\ \A old \in StoredRows(last.userId) :
                        /\ row.createdAt = old.createdAt
                        /\ row.updatedAt > old.updatedAt ]_vars

----------------------------------------------------------------------------
(* C10 *)

\* C10: a cleanup adds and changes no row, keeps every row that has a
\* refresh token and every row whose expiresAt is not earlier than now,
\* and, when the store does not fault, leaves no row that is expired and
\* without refresh token.
C10_CleanupExact ==
    [][ Called("cleanupExpiredTokens") =>
            /\ \A j \in 1..Len(table') : \E i \in 1..Len(table) :
                  table'[j] = table[i]
            /\ \A i \in 1..Len(table) :
                  (table[i].refreshToken /= Null \/ table[i].expiresAt >= now)
                     => \E j \in 1..Len(table') : table'[j] = table[i]
            /\ last'.fault = FALSE =>
                  \A j \in 1..Len(table') :
                     ~(table'[j].expiresAt < now /\ table'[j].refreshToken = Null)
      ]_vars

\* a cleanup has reaped the one record
C10_Witness ==
    /\ last.op = "cleanupExpiredTokens"
    /\ last.fault = FALSE
    /\ last.result = 1
    /\ table = <<>>

----------------------------------------------------------------------------
(* C11 *)

\* C11: the number a cleanup returns is the number of rows it has taken
\* out of the table; when the store faults it returns 0 and the table is as
\* it was.
C11_CleanupCount ==
    [][ Called("cleanupExpiredTokens") =>
            /\ last'.result = Len(table) - Len(table')
            /\ last'.fault = TRUE => (last'.result = 0 /\ table' = table)
      ]_vars

\* a cleanup has faulted over a record it would have reaped
C11_Witness ==
    /\ last.op = "cleanupExpiredTokens"
    /\ last.fault = TRUE
    /\ last.result = 0
    /\ \E i \in 1..Len(table) : CleanupMatches(table[i], now)

----------------------------------------------------------------------------
(* C12 *)

\* C12: a hasValidTokens call that does not fault answers true exactly
\* when the user has a record whose expiresAt is later than now, and the
\* call changes neither the table nor the in-process credential; once the
\* clock has reached a record's expiresAt the answer for it is false with
\* no other call made.
C12_HasValidIsPointInTime ==
    [][ /\ Called("hasValidTokens") =>
              /\ table' = table
              /\ creds' = creds
              /\ last'.fault = FALSE =>
                    (last'.result <=>
                        \E row \in StoredRows(last'.userId) :
                            row.expiresAt > now)
        /\ now' /= now =>
              \A u \in Users :
                  (\A row \in StoredRows(u) : row.expiresAt <= now')
                      => ~HasValidResult(table', u, now', FALSE) ]_vars

\* the answer is false at the very instant the one record expires
C12_Witness ==
    /\ last.op = "hasValidTokens"
    /\ last.fault = FALSE
    /\ last.result = FALSE
    /\ Len(table) = 1
    /\ table[1].userId = last.userId
    /\ table[1].expiresAt = now

----------------------------------------------------------------------------
(* C13 *)

\* C13 as claimed: a save of a token set without access token issues no
\* write, leaves the table as it was, and fails with an error that is not
\* the one a save fails with when the database faults.
C13_ValidationErrorSurfaced ==
    [][ (Called("save") /\ ~last'.upsert) =>
            /\ table' = table
            /\ last'.result /= "ok"
            /\ \A tk \in ProviderTokens :
                  last'.result /= SaveOutcome(tk, TRUE) ]_vars

----------------------------------------------------------------------------
(* C14 *)

\* C14: a save whose upsert faults throws the persistence failure and
\* leaves the table exactly as it was; a setTokens whose save faults
\* answers success false with that failure, the table again as it was.
C14_SaveFaultKeepsStore ==
    [][ /\ (Called("save") /\ last'.upsert /\ last'.result /= "ok") =>
              /\ table' = table
              /\ last'.result = "Failed to save tokens to database"
        /\ (Called("setGoogleOAuthTokens") /\ last'.fault) =>
              /\ last'.result.success = FALSE
              /\ last'.result.saved = TRUE
              /\ last'.result.error = "Failed to save tokens to database"
              /\ table' = table ]_vars

\* a setTokens has failed on its save, over a record stored earlier: the
\* handler has the new access token, the table the old one
C14_Witness ==
    /\ last.op = "setGoogleOAuthTokens"
    /\ last.result.success = FALSE
    /\ last.result.saved = TRUE
    /\ Len(table) = 1
    /\ HasAccessToken
    /\ table[1].accessToken /= creds.access_token

----------------------------------------------------------------------------
(* C15 *)

\* C15: a load, delete, hasValidTokens, getUserEmail or cleanup whose
\* database call faults leaves the table as it was and answers null,
\* nothing, false, null and 0; a start-up whose load faults leaves the
\* process serving, with no access token in its credential.
C15_FaultsAreSwallowed ==
    [][ /\ (Called("load") /\ last'.fault) =>
              (last'.result = NoCredentials /\ table' = table)
        /\ (Called("delete") /\ last'.fault) =>
              (DOMAIN last' = {"op", "userId", "fault"} /\ table' = table)
        /\ (Called("hasValidTokens") /\ last'.fault) =>
              (last'.result = FALSE /\ table' = table)
        /\ (Called("getUserEmail") /\ last'.fault) =>
              (last'.result = Null /\ table' = table)
        /\ (Called("cleanupExpiredTokens") /\ last'.fault) =>
              (last'.result = 0 /\ table' = table)
        /\ ((Called("init") \/ Called("restart")) /\ last'.fault) =>
              /\ phase' = "serving"
              /\ ~HasAccessToken'
              /\ last'.loaded = FALSE
              /\ table' = table ]_vars

\* getUserEmail has faulted over a record that has an email
C15_Witness ==
    /\ last.op = "getUserEmail"
    /\ last.fault = TRUE
    /\ last.result = Null
    /\ Len(table) = 1
    /\ table[1].userId = last.userId
    /\ table[1].userEmail /= Null

----------------------------------------------------------------------------
(* C16 *)

\* C16: a delete never hands an error to its caller; one that does not
\* fault leaves no record of the user, leaves the table as it was when the
\* user had none, and leaves a table that a second delete would not change;
\* straight after it a load of the user returns null and hasValidTokens
\* returns false.
C16_DeleteIdempotent ==
    [][ /\ Called("delete") =>
              /\ DOMAIN last' = {"op", "userId", "fault"}
              /\ last'.fault = FALSE =>
                    /\ ~HasRecord(table', last'.userId)
                    /\ ~HasRecord(table, last'.userId) => table' = table
                    /\ TableAfterDelete(table', last'.userId, FALSE) = table'
                    /\ LoadResult(table', last'.userId, FALSE) = NoCredentials
                    /\ ~HasValidResult(table', last'.userId, now, FALSE)
        /\ (last.op = "delete" /\ ~last.fault /\ Called("load")
            /\ last'.userId = last.userId) =>
              last'.result = NoCredentials
        /\ (last.op = "delete" /\ ~last.fault /\ Called("hasValidTokens")
            /\ last'.userId = last.userId) =>
              last'.result = FALSE ]_vars

\* a delete has gone through while the process holds an access token: no
\* record is left
C16_Witness ==
    /\ last.op = "delete"
    /\ last.fault = FALSE
    /\ last.userId = DefaultUser
    /\ table = <<>>
    /\ phase = "serving"
    /\ HasAccessToken

----------------------------------------------------------------------------
(* C17 *)

\* C17: a load changes neither the table nor the in-process credential;
\* when it does not fault it returns null exactly when the user has no
\* record, and otherwise the record's access token, refresh token and
\* expiry, whether or not the expiry has passed.
C17_LoadReturnsStored ==
    [][ Called("load") =>
            /\ table' = table
            /\ creds' = creds
            /\ last'.fault = TRUE => last'.result = NoCredentials
            /\ last'.fault = FALSE =>
                  /\ (last'.result = NoCredentials)
                        <=> (StoredRows(last'.userId) = {})
                  /\ \A row \in StoredRows(last'.userId) :
                        /\ last'.result.access_token = row.accessToken
                        /\ last'.result.expiry_date = row.expiresAt
                        /\ last'.result.refresh_token =
                              (IF row.refreshToken = Null
                               THEN Undefined ELSE row.refreshToken) ]_vars

\* a load has returned a record that has a refresh token and whose expiry
\* has passed
C17_Witness ==
    /\ last.op = "load"
    /\ last.fault = FALSE
    /\ last.result /= NoCredentials
    /\ last.result.expiry_date < now
    /\ last.result.refresh_token \in RefreshTokens

----------------------------------------------------------------------------
(* C18 *)

\* C18: a read changes neither the in-process credential nor the table,
\* its answer carries no authorization URL, and the answer is the one the
\* same date and the same provider answer get under every other
\* credential, with and without access token.
C18_ReadIgnoresCredential ==
    [][ Called("getMyCalendarDataByDate") =>
            /\ creds' = creds
            /\ table' = table
            /\ "authUrl" \notin DOMAIN last'.result
            /\ "answer" \in DOMAIN last' =>
                  \A c \in ProviderTokens \cup {EmptyCredentials} :
                      ReadResult(c, last'.date, last'.answer) = last'.result
      ]_vars

\* a read has listed the day's events on a process without access token
C18_Witness ==
    /\ last.op = "getMyCalendarDataByDate"
    /\ ~HasAccessToken
    /\ "meetings" \in DOMAIN last.result
    /\ Len(last.result.meetings) = 4

----------------------------------------------------------------------------
(* C19 *)

\* C19: a read whose date Date.parse does not accept is answered by the
\* input validation, without a call of the provider's list; a write that
\* the input validation turns away is a failure without a call of the
\* provider's insert, and every write that reaches the handler has a start
\* and an end that Date.parse accepts.
C19_UnparseableRejected ==
    [][ /\ (Called("getMyCalendarDataByDate") /\ DateParse(last'.date) = NaN) =>
              /\ last'.result.listed = FALSE
              /\ last'.result.error = "Invalid arguments"
        /\ (Called("createCalendarEvent") /\ ~WriteHandled') =>
              /\ last'.result.error = "Invalid arguments"
              /\ last'.result.success = FALSE
              /\ last'.result.inserted = FALSE
        /\ (Called("createCalendarEvent") /\ WriteHandled') =>
              /\ DateParse(last'.startDateTime) /= NaN
              /\ DateParse(last'.endDateTime) /= NaN ]_vars

\* a read of a date that is none has been turned away
C19_Witness ==
    /\ last.op = "getMyCalendarDataByDate"
    /\ DateParse(last.date) = NaN
    /\ last.result.listed = FALSE

----------------------------------------------------------------------------
(* C20 *)

\* C20 as claimed: a request for /oauth2callback gets the same response
\* from the stand-alone listener and from the network server's route: the
\* 400 page when the query has no code or an empty one, and otherwise the
\* 200 page that carries the code.
C20_CallbackSameInBothModes ==
    last.op = "oauth2callback" =>
        /\ ListenerResponse(last.request) = RouteResponse(last.request)
        /\ (\A i \in 1..Len(last.request.query) :
                last.request.query[i][1] = "code"
                    => last.request.query[i][2] = "")
              => last.response.status = 400
        /\ (\E i \in 1..Len(last.request.query) :
                /\ last.request.query[i][1] = "code"
                /\ last.request.query[i][2] /= "")
              => last.response.status = 200


\* a tool-protocol request was posted to /message while a stream was open
MessagePosted == last.op = "message" /\ net.stream = "open"

\* the tool server was handed a request and a result went out on the stream
\* after the endpoint announcement
MessageAnswered == net.handled /= <<>> /\ Len(net.events) > 1

\* C21: in network mode, once a client has opened /sse, a tool-protocol
\* request posted to /message is delivered to the tool server, the matching
\* handler runs and its result is eventually emitted on the event stream.
C21_MessageEventuallyAnswered == MessagePosted ~> MessageAnswered


\* the start the read tool is to show for an event: the timed start, else
\* the all-day date, else "Unknown time"
ShownStart(event) ==
    IF event.hasStart /\ Truthy(event.dateTime) THEN event.dateTime
    ELSE IF event.hasStart /\ Truthy(event.date) THEN event.date
    ELSE "Unknown time"

\* a read got the day's events from the provider
ReadListed ==
    /\ last.op = "getMyCalendarDataByDate"
    /\ "meetings" \in DOMAIN last.result

\* C22: for every event the provider returns, read produces
\* "<summary> at <start>", <start> being the timed start if present, else the
\* all-day date, else "Unknown time" whenever neither is present, a start
\* object carrying neither field included.
C22_MeetingLines ==
    ReadListed =>
        /\ Len(last.result.meetings) = Len(last.answer.items)
        /\ \A i \in DOMAIN last.answer.items :
              last.result.meetings[i] =
                  <<last.answer.items[i].summary,
                    ShownStart(last.answer.items[i])>>


\* the latest call was a save that went through, and the record it wrote
SaveWentThrough == last.op = "save" /\ last.result = "ok"

SavedRow == table[CHOOSE i \in RowsOf(table, last.userId) : TRUE]

\* C23: a save of a credential set without expiry stores save time + 1 hour
\* as expiresAt, so hasValidTokens is true right after the save and false
\* once the hour has elapsed; a set that carries an expiry is stored with
\* exactly that expiry.
C23_DefaultExpiry ==
    SaveWentThrough =>
        IF last.tokens.expiry_date = NoExpiry
        THEN /\ SavedRow.expiresAt = last.at + Hour
             /\ HasValidResult(table, last.userId, now, FALSE)
                   <=> now < last.at + Hour
        ELSE SavedRow.expiresAt = last.tokens.expiry_date

\* a set without expiry was saved and the hour has elapsed
C23_Witness ==
    /\ SaveWentThrough
    /\ last.tokens.expiry_date = NoExpiry
    /\ now = last.at + Hour
    /\ ~HasValidResult(table, last.userId, now, FALSE)


\* the receiver of the running mode was handed an authorization code
CodeReceived(l) == l.op = "oauth2callback" /\ l.response.status = 200

\* C24: receiving an authorization code at the callback receiver changes no
\* credential state: the store and the in-process credential are as before,
\* and an Unauthorized user stays Unauthorized.
C24_CallbackKeepsCredentials ==
    [][(Called("oauth2callback") /\ CodeReceived(last'))
          => /\ table' = table
             /\ creds' = creds
             /\ (~Authorized => ~Authorized')]_vars

\* a code was received while the user was Unauthorized
C24_Witness == CodeReceived(last) /\ ~Authorized


\* the process has just started with a reachable store that holds a record
\* of the default user
StartedWithRecord ==
    /\ last.op \in {"init", "restart"}
    /\ ~last.fault
    /\ HasRecord(table, DefaultUser)

\* C25: no tool invocation is handled before the start-up credential load has
\* completed: when the process starts with a reachable store that holds a
\* record of the default user, the first write after start-up passes the
\* authorization check.
C25_LoadBeforeTools ==
    [][/\ phase' = "starting" => last'.op \notin ToolRequests
       /\ (StartedWithRecord /\ Called("createCalendarEvent") /\ ValidWindow')
             => last'.result.inserted]_vars

\* a write reached the provider on a credential that only the start-up load
\* produces: its expiry is the default one the store computed
C25_Witness ==
    /\ ValidWindow
    /\ last.result.inserted
    /\ creds.expiry_date = Hour


\* C26: the in-process credential is replaced only by a setTokens that
\* succeeds: after a setTokens that answers a failure envelope, a failed
\* persisting after a good exchange included, the in-process credential, and
\* with it the outcome of the authorization check of the next write, is what
\* it was before the call.
C26_FailedSetTokensKeepsCredential ==
    [][(Called("setGoogleOAuthTokens") /\ ~last'.result.success)
          => /\ creds' = creds
             /\ GateOpen(creds') = GateOpen(creds)]_vars


\* every overlapping setTokens invocation has returned success
AllCallsSucceeded ==
    \A id \in CallIds : calls[id].pc = "done" /\ calls[id].success

\* C27: under any interleaving of concurrent setTokens invocations for the
\* same user, once all of them have completed successfully the in-process
\* credential and the stored record come from the same token set: they carry
\* the same access token.
C27_SameWinner ==
    AllCallsSucceeded =>
        \A row \in StoredRows(DefaultUser) :
            row.accessToken = creds.access_token


\* the latest call was a delete or a cleanup and the default user has no
\* stored record
RecordRemoved ==
    /\ last.op \in {"delete", "cleanupExpiredTokens"}
    /\ ~HasRecord(table, DefaultUser)

\* C28: within a running process, removing the stored record by a delete or
\* a cleanup does not change the in-process credential: a write issued
\* afterwards still passes the authorization check and reaches the
\* provider's insert.
C28_RemovalKeepsCredential ==
    [][/\ (Called("delete") \/ Called("cleanupExpiredTokens"))
             => creds' = creds
       /\ (RecordRemoved /\ HasAccessToken
           /\ Called("createCalendarEvent") /\ ValidWindow')
             => /\ last'.result.inserted
                /\ last'.result.authUrl = NoUrl]_vars

\* a cleanup has removed the record while the process holds an access token
C28_Witness ==
    /\ last.op = "cleanupExpiredTokens"
    /\ last.result > 0
    /\ ~HasRecord(table, DefaultUser)
    /\ HasAccessToken


\* the latest call was a write whose end is at or before its start, made
\* while the user was Unauthorized
BadWindowUnauthorized ==
    /\ WriteHandled
    /\ ~ValidWindow
    /\ ~Authorized

\* C29: in write, the time window is validated before the credential is
\* tested: a write with end at or before start issued while Unauthorized is
\* answered with the validation error, carries no authUrl, and no
\* authorization URL is generated for it.
C29_WindowBeforeGate ==
    BadWindowUnauthorized =>
        /\ last.result.error /= "Authentication required"
        /\ last.result.error = "End time must be after the start time."
        /\ DOMAIN last.result.authUrl = DOMAIN NoUrl

\* such a write was made while the process held no access token at all
C29_Witness ==
    /\ BadWindowUnauthorized
    /\ ~HasAccessToken
    /\ DateParse(last.endDateTime) < DateParse(last.startDateTime)

====
